---- MODULE Spec2Model ----
(***************************************************************************)
(* subctl: a read-side monitor of agent records that producers publish     *)
(* into a Redis store, and an event recorder.                              *)
(*                                                                         *)
(* Two code paths implement the orchestrator: the package                  *)
(* (src/subctl/orchestrator.py, driven by src/subctl/cli.py) and the       *)
(* stand-alone script (src/subctl.py).  Both are modelled; `impl` values   *)
(* "package" and "script" select between them.                             *)
(*                                                                         *)
(* Time is counted in seconds.  An exception is modelled as a value: an    *)
(* operator that can raise returns a record with an `exc` field, "none"    *)
(* when it returns normally.                                               *)
(***************************************************************************)
EXTENDS Integers, Sequences, FiniteSets, TLC

VARIABLES
    up,         \* the store answers (TRUE) or every call to it raises
    agentsKey,  \* the value stored under "subctl:agents"
    now,        \* wall clock, seconds
    events,     \* label -> the list stored under "subctl:events:{label}"
    expireAt,   \* label -> instant at which the key expires, NoExpiry if none
    call,       \* the orchestrator call in progress / just finished
    rec,        \* the record_agent_event call in progress / just finished
    hist,       \* label -> what the recorder last did to the label's list
    pc,         \* cli.main: position
    args,       \* cli.main: parsed arguments
    agents,     \* cli.main: local variable `agents`
    info,       \* cli.main: local variable `agent_info` (what dict.get gave)
    out,        \* cli.main: lines printed (in watch mode: in the current cycle)
    exit        \* cli.main: "running", "ok" (normal return), or the name of
                \* the exception that left main uncaught

vars == <<up, agentsKey, now, events, expireAt, call, rec, hist, pc, args, agents, info,
         out, exit>>

storeVars == <<up, agentsKey, now>>
eventVars == <<events, expireAt>>
recVars   == <<rec, hist>>
cliVars   == <<pc, args, agents, info, out, exit>>

(***************************************************************************)
(* Bounds of the model.                                                    *)
(***************************************************************************)
TickSeconds == 300     \* the clock advances in steps of this many seconds
MaxNow      == 900     \* the clock stops here in the fetch and CLI models
RecMaxNow   == 4800    \* the clock stops here in the recorder model
MaxEvents   == 2       \* longest event list
MaxPermille == 1000    \* package_compliance is counted in thousandths, 0..this

(***************************************************************************)
(* Program constants.                                                      *)
(***************************************************************************)
DefaultMaxAgeMinutes == 10     \* get_active_agents(max_age_minutes=10)
EventTtlSeconds      == 3600   \* expire(event_key, 3600)
DefaultRefresh       == 5      \* --refresh default
SevereBelow          == 800    \* package_compliance < 0.8, in thousandths
WarningBelow         == 950    \* package_compliance < 0.95, in thousandths

Labels   == {"a", "b"}
NoLabel  == "zz"               \* a label no snapshot of the model holds
EmptyMap == [l \in {} |-> 0]
NoExpiry == 0 - 1              \* the store's answer for a key without expiry

(***************************************************************************)
(* The snapshot blob and its per-agent entries (JSON values).              *)
(*   dict   : the JSON value is an object                                  *)
(*   keys   : its key set is exactly the ten AgentInfo fields ("exact"),   *)
(*            lacks one ("missing") or has an unknown one ("extra")        *)
(*   lu     : its 'last_update': a naive ISO-8601 text ("iso"), one with   *)
(*            a UTC offset ("isotz"), a text that is no timestamp          *)
(*            ("junk"), a JSON number ("num"), or no such key ("absent")   *)
(*   truthy : for a non-object value, its Python truth value               *)
(*   label, package_compliance : the values of these two fields, the       *)
(*            latter in thousandths                                        *)
(***************************************************************************)
Lu(k, t) == [k |-> k, t |-> t]

JRec(keys, lu) == [dict |-> TRUE, keys |-> keys, lu |-> lu, truthy |-> TRUE,
                   label |-> NoLabel, package_compliance |-> MaxPermille]
JRaw(truthy)   == [dict |-> FALSE, keys |-> "exact", lu |-> Lu("absent", 0), truthy |-> truthy,
                   label |-> NoLabel, package_compliance |-> 0]

\* The entry with its 'label' field set to `name`.
Named(e, name) == [e EXCEPT !.label = name]

\* last_update instants a producer reports
Stamps == {0, 299, 300, 1200}

GoodEntries == {JRec("exact", Lu("iso", t)) : t \in Stamps}

BadEntries ==
    { JRec("exact", Lu("isotz", 0)),      \* "1970-01-01T00:00:00+00:00"
      JRec("exact", Lu("junk", 0)),       \* "yesterday"
      JRec("exact", Lu("num", 0)),        \* 0.0 (epoch seconds)
      JRec("missing", Lu("iso", 0)),      \* no 'status'
      JRec("missing", Lu("absent", 0)),   \* no 'last_update'
      JRec("extra", Lu("iso", 0)),        \* an unknown field
      JRaw(TRUE),                         \* 5
      JRaw(FALSE) }                       \* null

Entries == GoodEntries \cup BadEntries

\* The value under "subctl:agents": no key, "", a text that is no JSON, a JSON
\* value that is no object, or a JSON object label -> entry.
Blob(k, m) == [k |-> k, m |-> m]

\* A snapshot as the producers are meant to write it: every entry carries
\* the key it is stored under as its 'label'.
KeyedBlob(m) == Blob("obj", [l \in DOMAIN m |-> Named(m[l], l)])

\* A snapshot whose only entry is stored under "a" and calls itself "b".
MislabelledBlob == Blob("obj", [l \in {"a"} |-> Named(JRec("exact", Lu("iso", 0)), "b")])

ObjBlobs ==
    {KeyedBlob(EmptyMap)}
    \cup {KeyedBlob([l \in {"a"} |-> e]) : e \in Entries}
    \cup {KeyedBlob([l \in Labels |-> IF l = "a" THEN e ELSE g]) :
              e \in GoodEntries, g \in GoodEntries}
    \cup {KeyedBlob([l \in Labels |-> IF l = "a" THEN JRec("exact", Lu("iso", 0)) ELSE g]) :
              g \in BadEntries}
    \cup {MislabelledBlob}

Blobs ==
    {Blob("absent", EmptyMap), Blob("empty", EmptyMap),
     Blob("junk", EmptyMap), Blob("nonobj", EmptyMap)} \cup ObjBlobs

(***************************************************************************)
(* Record Codec: orchestrator.py 36-48 (subctl.py 62-74 is the same text). *)
(***************************************************************************)
\* An in-memory value of the returned mapping: an AgentInfo or a raw value.
\* lu.k is "naive" or "aware" for a datetime, "num" for a number left as is.
\* AgentInfo(**value) copies the fields of the entry; `lu` is the entry's
\* last_update after the conversion of lines 43-44.
AgentInfo(e, lu) == [cls |-> "AgentInfo", lu |-> lu, truthy |-> TRUE,
                     label |-> e.label, package_compliance |-> e.package_compliance]
RawValue(truthy) == [cls |-> "raw", lu |-> Lu("absent", 0), truthy |-> truthy,
                     label |-> NoLabel, package_compliance |-> 0]

\* datetime.fromisoformat(text)
fromisoformat(lu) ==
    CASE lu.k = "iso"   -> [exc |-> "none", val |-> Lu("naive", lu.t)]
      [] lu.k = "isotz" -> [exc |-> "none", val |-> Lu("aware", lu.t)]
      [] OTHER          -> [exc |-> "ValueError", val |-> lu]

\* One iteration of the loop at orchestrator.py 40-47.
DecodeEntry(e) ==
    IF e.dict
    THEN LET conv == IF e.lu.k \in {"iso", "isotz", "junk"}   \* present and a str
                     THEN fromisoformat(e.lu)
                     ELSE [exc |-> "none", val |-> e.lu]
         IN  IF conv.exc # "none" THEN [exc |-> conv.exc, val |-> RawValue(FALSE)]
             ELSE IF e.keys # "exact" \/ e.lu.k = "absent"    \* AgentInfo(**value)
                  THEN [exc |-> "TypeError", val |-> RawValue(FALSE)]
                  ELSE [exc |-> "none", val |-> AgentInfo(e, conv.val)]
    ELSE [exc |-> "none", val |-> RawValue(e.truthy)]

\* The try body of get_all_agents, orchestrator.py 35-48.  `fell` says that the
\* body ended without returning (the `if agent_data:` test failed).
FetchBody(u, blob) ==
    IF ~u THEN [exc |-> "ConnectionError", ret |-> EmptyMap, fell |-> FALSE]
    ELSE IF blob.k \in {"absent", "empty"}
         THEN [exc |-> "none", ret |-> EmptyMap, fell |-> TRUE]
    ELSE IF blob.k = "junk"
         THEN [exc |-> "JSONDecodeError", ret |-> EmptyMap, fell |-> FALSE]
    ELSE IF blob.k = "nonobj"
         THEN [exc |-> "AttributeError", ret |-> EmptyMap, fell |-> FALSE]
    ELSE IF \E l \in DOMAIN blob.m : DecodeEntry(blob.m[l]).exc # "none"
         THEN [exc |-> "DecodeError", ret |-> EmptyMap, fell |-> FALSE]
         ELSE [exc |-> "none",
               ret |-> [l \in DOMAIN blob.m |-> DecodeEntry(blob.m[l]).val],
               fell |-> FALSE]

\* orchestrator.py 49-53: `except Exception as e: console.print(...)`, then the
\* fallback `return {}`.
PackageExcept(body) ==
    IF body.exc # "none"
    THEN [exc |-> "none", ret |-> EmptyMap, diag |-> 1]
    ELSE [exc |-> "none", ret |-> body.ret, diag |-> 0]

\* subctl.py 75-79: `except: pass`, then `return self.agents`, the local cache
\* that nothing ever fills.
ScriptExcept(body) ==
    IF body.exc # "none"
    THEN [exc |-> "none", ret |-> EmptyMap, diag |-> 0]
    ELSE [exc |-> "none", ret |-> body.ret, diag |-> 0]

get_all_agents(impl, u, blob) ==
    IF impl = "package" THEN PackageExcept(FetchBody(u, blob))
                        ELSE ScriptExcept(FetchBody(u, blob))

(***************************************************************************)
(* Liveness Filter: orchestrator.py 55-67.                                 *)
(***************************************************************************)
\* `now - agent.last_update` (line 63): datetime.now() is naive, so the
\* subtraction raises TypeError for an aware datetime and for a number.
AgeSeconds(t, lu) ==
    IF lu.k = "naive" THEN [exc |-> "none", val |-> t - lu.t]
                      ELSE [exc |-> "TypeError", val |-> 0]

\* A filter that drops the record whose age is exactly the threshold.
WithinAge_Strict(seconds, maxAgeMinutes) == seconds < 60 * maxAgeMinutes

\* A filter with the comparison turned round: it keeps the old records.
WithinAge_Inverted(seconds, maxAgeMinutes) == seconds >= 60 * maxAgeMinutes

\* A filter that bounds the distance between now and last_update, whatever
\* its sign.
WithinAge_Distance(seconds, maxAgeMinutes) ==
    (IF seconds < 0 THEN 0 - seconds ELSE seconds) <= 60 * maxAgeMinutes

\* Line 63-64: age_minutes = seconds / 60; age_minutes <= max_age_minutes.
\* The division is exact on the rationals, so the test is seconds <= 60 * max.
WithinAge(seconds, maxAgeMinutes) == seconds <= 60 * maxAgeMinutes

\* A filter that hands its records on as plain dicts (asdict(agent)).
FilterActive_AsDicts(all, t, maxAgeMinutes) ==
    LET recs == {l \in DOMAIN all : all[l].cls = "AgentInfo"}
    IN  IF \E l \in recs : AgeSeconds(t, all[l].lu).exc # "none"
        THEN [exc |-> "TypeError", ret |-> EmptyMap]
        ELSE LET keep == {l \in recs : WithinAge(AgeSeconds(t, all[l].lu).val, maxAgeMinutes)}
             IN  [exc |-> "none", ret |-> [l \in keep |-> RawValue(TRUE)]]

\* The loop of lines 61-65 over an already fetched mapping.
FilterActive(all, t, maxAgeMinutes) ==
    LET recs == {l \in DOMAIN all : all[l].cls = "AgentInfo"}
    IN  IF \E l \in recs : AgeSeconds(t, all[l].lu).exc # "none"
        THEN [exc |-> "TypeError", ret |-> EmptyMap]
        ELSE LET keep == {l \in recs : WithinAge(AgeSeconds(t, all[l].lu).val, maxAgeMinutes)}
             IN  [exc |-> "none", ret |-> [l \in keep |-> all[l]]]

get_active_agents(u, blob, t, maxAgeMinutes) ==
    LET f == get_all_agents("package", u, blob)
        r == FilterActive(f.ret, t, maxAgeMinutes)
    IN  [exc |-> r.exc, ret |-> r.ret, diag |-> f.diag]

(***************************************************************************)
(* get_agent_info: orchestrator.py 69-72, subctl.py 81-84.                 *)
(* `found` says whether dict.get returned a value rather than None.        *)
(***************************************************************************)
\* A lookup by subscript, m[label], which raises for an absent key.
DictGet_Subscript(m, label) ==
    IF label \in DOMAIN m THEN [exc |-> "none", found |-> TRUE, val |-> m[label]]
                          ELSE [exc |-> "KeyError", found |-> FALSE, val |-> RawValue(FALSE)]

DictGet(m, label) ==
    IF label \in DOMAIN m THEN [exc |-> "none", found |-> TRUE, val |-> m[label]]
                          ELSE [exc |-> "none", found |-> FALSE, val |-> RawValue(FALSE)]

\* A lookup in the active subset of the snapshot instead of the full one.
get_agent_info_ActiveOnly(impl, u, blob, label) ==
    LET f == get_active_agents(u, blob, now, DefaultMaxAgeMinutes)
        g == DictGet(f.ret, label)
    IN  [exc |-> g.exc, found |-> g.found, val |-> g.val, diag |-> f.diag]

get_agent_info(impl, u, blob, label) ==
    LET f == get_all_agents(impl, u, blob)
        g == DictGet(f.ret, label)
    IN  [exc |-> g.exc, found |-> g.found, val |-> g.val, diag |-> f.diag]

(***************************************************************************)
(* The environment: the store's availability, the producers that replace   *)
(* the snapshot, and the clock.  A key whose expiry instant is reached is  *)
(* deleted by the store.  While an orchestrator call of the fetch model is *)
(* being observed (`call`), the environment holds still.                   *)
(***************************************************************************)
IdleRec == [pc |-> "idle", impl |-> "package", label |-> NoLabel,
            event |-> [id |-> 0, ts |-> "datetime"], fail |-> "none",
            diag |-> 0, exc |-> "none"]

IdleCall == [op |-> "idle", impl |-> "package", label |-> NoLabel, maxAge |-> 0,
             ret |-> EmptyMap, found |-> FALSE, val |-> RawValue(FALSE),
             diag |-> 0, exc |-> "none"]

EnvFree == call.op = "idle" /\ rec.pc # "done" /\ exit = "running"

StoreDown ==
    /\ EnvFree
    /\ up
    /\ up' = FALSE
    /\ UNCHANGED <<agentsKey, now, events, expireAt, call, recVars, cliVars>>

StoreUp ==
    /\ EnvFree
    /\ ~up
    /\ up' = TRUE
    /\ UNCHANGED <<agentsKey, now, events, expireAt, call, recVars, cliVars>>

\* A producer replaces the whole snapshot (SET subctl:agents).
ProducerWrite ==
    /\ EnvFree
    /\ up
    /\ \E b \in Blobs : b # agentsKey /\ agentsKey' = b
    /\ UNCHANGED <<up, now, events, expireAt, call, recVars, cliVars>>

Expired(l, t) == expireAt[l] # NoExpiry /\ t >= expireAt[l]

TickTo(step, limit) ==
    /\ EnvFree
    /\ now + step <= limit
    /\ now' = now + step
    /\ events' = [l \in Labels |-> IF Expired(l, now') THEN <<>> ELSE events[l]]
    /\ expireAt' = [l \in Labels |-> IF Expired(l, now') THEN NoExpiry ELSE expireAt[l]]
    /\ UNCHANGED <<up, agentsKey, call, recVars, cliVars>>

Tick == TickTo(TickSeconds, MaxNow)

(***************************************************************************)
(* The fetch model: a caller of the orchestrator's read operations.  Each  *)
(* call is one step (one GET and a pure computation); `call` keeps what    *)
(* the caller observes until CallReturn.                                   *)
(***************************************************************************)
Impls   == {"package", "script"}
MaxAges == {0, 5, DefaultMaxAgeMinutes}

CallGetAll ==
    /\ call.op = "idle"
    /\ \E impl \in Impls :
         LET r == get_all_agents(impl, up, agentsKey)
         IN  call' = [IdleCall EXCEPT !.op = "get_all_agents", !.impl = impl,
                                      !.ret = r.ret, !.diag = r.diag, !.exc = r.exc]
    /\ UNCHANGED <<storeVars, eventVars, recVars, cliVars>>

CallGetActive ==
    /\ call.op = "idle"
    /\ \E m \in MaxAges :
         LET r == get_active_agents(up, agentsKey, now, m)
         IN  call' = [IdleCall EXCEPT !.op = "get_active_agents", !.maxAge = m,
                                      !.ret = r.ret, !.diag = r.diag, !.exc = r.exc]
    /\ UNCHANGED <<storeVars, eventVars, recVars, cliVars>>

CallGetInfo ==
    /\ call.op = "idle"
    /\ \E impl \in Impls, label \in Labels \cup {NoLabel} :
         LET r == get_agent_info(impl, up, agentsKey, label)
         IN  call' = [IdleCall EXCEPT !.op = "get_agent_info", !.impl = impl,
                                      !.label = label, !.found = r.found,
                                      !.val = r.val, !.diag = r.diag, !.exc = r.exc]
    /\ UNCHANGED <<storeVars, eventVars, recVars, cliVars>>

CallReturn ==
    /\ call.op # "idle"
    /\ call' = IdleCall
    /\ UNCHANGED <<storeVars, eventVars, recVars, cliVars>>


NoInfo == [exc |-> "none", found |-> FALSE, val |-> RawValue(FALSE), diag |-> 0]

IdleArgs == [command |-> "none", watch |-> FALSE, stale |-> FALSE,
             refresh |-> DefaultRefresh, agent_label |-> NoLabel, flags |-> {}]

Init ==
    /\ up = TRUE
    /\ agentsKey = Blob("absent", EmptyMap)
    /\ now = 0
    /\ events = [l \in Labels |-> <<>>]
    /\ expireAt = [l \in Labels |-> NoExpiry]
    /\ call = IdleCall
    /\ rec = IdleRec
    /\ hist = [l \in Labels |-> [complete |-> FALSE, at |-> 0]]
    /\ pc = "start"
    /\ args = IdleArgs
    /\ agents = EmptyMap
    /\ info = NoInfo
    /\ out = <<>>
    /\ exit = "running"

Next ==
    \/ StoreDown
    \/ StoreUp
    \/ ProducerWrite
    \/ Tick
    \/ CallGetAll
    \/ CallGetActive
    \/ CallGetInfo
    \/ CallReturn

Spec == Init /\ [][Next]_vars

(***************************************************************************)
(* Claims about the fetch and the liveness filter (specification Spec).    *)
(***************************************************************************)
\* A store-level failure of the GET: the store does not answer, or what it
\* holds cannot be decoded.
StoreFailure == ~up \/ agentsKey.k = "junk"

\* C1: a fetch (get_all_agents) that meets a store-level failure returns the
\* empty mapping, raises nothing and prints exactly one diagnostic line, in
\* the package and in the script.
C1_FailedFetchEmptyOneDiagnostic ==
    (call.op = "get_all_agents" /\ StoreFailure)
        => (call.ret = EmptyMap /\ call.exc = "none" /\ call.diag = 1)

\* C2: whatever is stored under subctl:agents, the package's get_all_agents
\* does not raise and every value of the mapping it returns is an AgentInfo.
C2_OnlyRecordsReturned ==
    (call.op = "get_all_agents" /\ call.impl = "package")
        => /\ call.exc = "none"
           /\ \A l \in DOMAIN call.ret : call.ret[l].cls = "AgentInfo"

\* The snapshot a fetch returns in the current store state.
Snapshot == get_all_agents("package", up, agentsKey).ret

\* C5: get_active_agents(max_age) returns exactly the records of the fetched
\* snapshot whose age now - last_update is at most max_age minutes, boundary
\* included: a subset of the snapshot, every returned record within the
\* bound, none within the bound left out; with the default of 10 minutes a
\* record 5 minutes old is returned and one 15 minutes old is not.
C5_ActiveIsExactlyTheRecent ==
    (call.op = "get_active_agents" /\ call.exc = "none")
        => /\ DOMAIN call.ret \subseteq DOMAIN Snapshot
           /\ \A l \in DOMAIN call.ret : call.ret[l] = Snapshot[l]
           /\ \A l \in DOMAIN Snapshot :
                Snapshot[l].cls = "AgentInfo" =>
                  (l \in DOMAIN call.ret <=> now - Snapshot[l].lu.t <= 60 * call.maxAge)
           /\ \A l \in DOMAIN Snapshot :
                (Snapshot[l].cls = "AgentInfo" /\ call.maxAge = DefaultMaxAgeMinutes) =>
                  /\ now - Snapshot[l].lu.t = 5 * 60 => l \in DOMAIN call.ret
                  /\ now - Snapshot[l].lu.t = 15 * 60 => l \notin DOMAIN call.ret

\* C5 witness: a default-threshold call over a snapshot holding a record exactly
\* 600 s old, which is returned, and one 601 s old, which is not.
C5_Witness ==
    /\ call.op = "get_active_agents" /\ call.exc = "none"
    /\ call.maxAge = DefaultMaxAgeMinutes
    /\ \E l, k \in DOMAIN Snapshot :
         /\ Snapshot[l].cls = "AgentInfo" /\ now - Snapshot[l].lu.t = 600
         /\ l \in DOMAIN call.ret
         /\ Snapshot[k].cls = "AgentInfo" /\ now - Snapshot[k].lu.t = 601
         /\ k \notin DOMAIN call.ret

\* C15: the liveness filter is idempotent: filtering the mapping that
\* get_active_agents returned once more, at the same instant and with the
\* same max_age, raises nothing and returns that mapping unchanged.
C15_FilterIdempotent ==
    (call.op = "get_active_agents" /\ call.exc = "none")
        => FilterActive(call.ret, now, call.maxAge) = [exc |-> "none", ret |-> call.ret]

\* C15 witness: a call that kept one record of the snapshot and dropped
\* another has returned; filtering its result again changes nothing.
C15_Witness ==
    /\ call.op = "get_active_agents" /\ call.exc = "none"
    /\ call.ret # EmptyMap
    /\ \E l \in DOMAIN Snapshot : l \notin DOMAIN call.ret
    /\ FilterActive(call.ret, now, call.maxAge).ret = call.ret

\* C16: a record whose last_update lies after now is in what
\* get_active_agents returns, for every max_age >= 0 (0 included): its
\* negative age is not clamped and passes the test age <= max_age.
C16_FutureRecordIsActive ==
    (call.op = "get_active_agents" /\ call.exc = "none" /\ call.maxAge >= 0)
        => \A l \in DOMAIN Snapshot :
               (Snapshot[l].cls = "AgentInfo" /\ Snapshot[l].lu.t > now)
                   => (l \in DOMAIN call.ret /\ call.ret[l] = Snapshot[l])

\* C16 witness: a call with max_age 0 has returned a record stamped 20
\* minutes after the call's instant.
C16_Witness ==
    /\ call.op = "get_active_agents" /\ call.exc = "none" /\ call.maxAge = 0
    /\ \E l \in DOMAIN call.ret : call.ret[l].lu.t = now + 20 * 60

\* An entry of the blob that is no well-formed agent record: not an object,
\* a key set other than the ten fields, or a last_update that is no
\* ISO-8601 text (a text that is no timestamp, a number, none at all).
EntryMalformed(e) ==
    ~e.dict \/ e.keys # "exact" \/ e.lu.k \in {"junk", "num", "absent"}

\* C13: decoding is all-or-nothing: when the store answers with a JSON object
\* of which some entry is malformed (a missing field, a malformed timestamp,
\* a value of the wrong type), the package's get_all_agents returns the
\* empty mapping and prints one diagnostic.
C13_DecodeAllOrNothing ==
    (/\ call.op = "get_all_agents" /\ call.impl = "package"
     /\ up /\ agentsKey.k = "obj"
     /\ \E l \in DOMAIN agentsKey.m : EntryMalformed(agentsKey.m[l]))
        => (call.ret = EmptyMap /\ call.diag = 1)

(***************************************************************************)
(* Event Recorder: record_agent_event, orchestrator.py 74-84 and           *)
(* subctl.py 86-93.                                                        *)
(*                                                                         *)
(* An AgentEvent is [id, ts]: `id` stands for its content and `ts` for the *)
(* Python type of its `timestamp` field, "datetime" as models.py declares  *)
(* it (a well-formed event) or "str" (an ISO text put there instead).      *)
(***************************************************************************)
EventIds == {1, 2}
Events   == [id : EventIds, ts : {"datetime", "str"}]

WellFormed(e) == e.ts = "datetime"

\* The JSON text of an event, as the list holds it.
JsonText(e) == [json |-> e.id]

\* asdict(event): orchestrator.py imports AgentInfo and AgentEvent from
\* .models (line 11) and never `asdict`, so the name is unbound there;
\* subctl.py imports it (line 14).
asdict(impl, e) ==
    IF impl = "package" THEN [exc |-> "NameError", val |-> e]
                        ELSE [exc |-> "none", val |-> e]

\* json.dumps(d) with the default encoder: a datetime is not serializable.
json_dumps(d) ==
    IF d.ts = "datetime" THEN [exc |-> "TypeError", val |-> JsonText(d)]
                         ELSE [exc |-> "none", val |-> JsonText(d)]

\* The argument of lpush, `json.dumps(asdict(event))`.
SerializeEvent(impl, e) ==
    LET d == asdict(impl, e)
    IN  IF d.exc # "none" THEN [exc |-> d.exc, val |-> JsonText(e)]
                          ELSE json_dumps(d.val)

\* A recorder whose handler lets the failure through to the caller.
RecordExcept_Propagate(r, where, e) ==
    [r EXCEPT !.pc = "done", !.fail = where, !.exc = e]

\* `except Exception as e: console.print(...)`: orchestrator.py 83-84,
\* subctl.py 92-93.  `where` is the step that raised.
RecordExcept(r, where, e) ==
    [r EXCEPT !.pc = "done", !.fail = where, !.diag = @ + 1, !.exc = "none"]

\* A recorder that never sets the expiry.
ExpireKey_Forgotten(l, t) == expireAt

\* EXPIRE key 3600 at instant t (orchestrator.py 82, subctl.py 91).
ExpireKey(l, t) == [expireAt EXCEPT ![l] = t + EventTtlSeconds]

\* A recorder that overwrites the list (SET) instead of pushing onto it.
PushHead_Overwrite(l, text) == [events EXCEPT ![l] = <<text>>]

\* LPUSH key text (orchestrator.py 78-81, subctl.py 90).
PushHead(l, text) == [events EXCEPT ![l] = <<text>> \o @]

\* The store's TTL answer for the label's key.
Ttl(l) == IF expireAt[l] = NoExpiry THEN NoExpiry ELSE expireAt[l] - now

\* Lines 76-81: the key is built, the event serialized and LPUSH sent.
RecordPush ==
    /\ rec.pc = "idle"
    /\ \E impl \in Impls, l \in Labels, e \in Events :
         LET r0  == [IdleRec EXCEPT !.impl = impl, !.label = l, !.event = e]
             ser == SerializeEvent(impl, e)
         IN  /\ Len(events[l]) < MaxEvents
             /\ IF ser.exc # "none"
                THEN /\ rec' = RecordExcept(r0, "serialize", ser.exc)
                     /\ UNCHANGED <<events, hist>>
                ELSE IF ~up
                THEN /\ rec' = RecordExcept(r0, "lpush", "ConnectionError")
                     /\ UNCHANGED <<events, hist>>
                ELSE /\ rec' = [r0 EXCEPT !.pc = "expire"]
                     /\ events' = PushHead(l, ser.val)
                     /\ hist' = [hist EXCEPT ![l] = [complete |-> FALSE, at |-> now]]
    /\ UNCHANGED <<storeVars, expireAt, call, cliVars>>

\* Line 82: EXPIRE is sent.
RecordExpire ==
    /\ rec.pc = "expire"
    /\ IF ~up
       THEN /\ rec' = RecordExcept(rec, "expire", "ConnectionError")
            /\ UNCHANGED <<expireAt, hist>>
       ELSE /\ rec' = [rec EXCEPT !.pc = "done"]
            \* EXPIRE on a key that expired in the meantime answers 0 and
            \* sets nothing; the code does not read the answer
            /\ expireAt' = IF events[rec.label] = <<>> THEN expireAt
                           ELSE ExpireKey(rec.label, now)
            /\ hist' = [hist EXCEPT ![rec.label] =
                            [complete |-> events[rec.label] # <<>>, at |-> now]]
    /\ UNCHANGED <<storeVars, events, call, cliVars>>

\* The call is over: control is back in the caller.
RecordReturn ==
    /\ rec.pc = "done"
    /\ rec' = IdleRec
    /\ UNCHANGED <<storeVars, eventVars, hist, call, cliVars>>

\* The recorder model's clock runs in steps of four ticks.
RecTick == TickTo(4 * TickSeconds, RecMaxNow)

RecNext ==
    \/ StoreDown
    \/ StoreUp
    \/ RecTick
    \/ RecordPush
    \/ RecordExpire
    \/ RecordReturn

SpecRec == Init /\ [][RecNext]_vars

(***************************************************************************)
(* Claims about the Event Recorder (specification SpecRec).                *)
(***************************************************************************)
\* C3: when record_agent_event(label, event) has been called with a
\* well-formed AgentEvent and the store answered throughout, the head of
\* subctl:events:{label} is the serialized event just written and the key's
\* remaining TTL is 3600 seconds.
C3_HeadIsEventAndTtlIsAnHour ==
    (rec.pc = "done" /\ WellFormed(rec.event) /\ rec.fail \notin {"lpush", "expire"})
        => /\ events[rec.label] # <<>>
           /\ Head(events[rec.label]) = JsonText(rec.event)
           /\ Ttl(rec.label) = EventTtlSeconds

\* C6 as stated: no append sequence, store failures included, leaves a
\* non-empty event list that never expires.  (Between LPUSH and EXPIRE of a
\* call in progress the expiry is still to come.)
C6_NoListWithoutExpiry ==
    \A l \in Labels :
        (events[l] # <<>> /\ ~(rec.pc = "expire" /\ rec.label = l))
            => expireAt[l] # NoExpiry

\* C6 amended: when the last append to a label's list had both its LPUSH and
\* its EXPIRE take effect (the EXPIRE at instant hist[l].at) and no event
\* for the label has arrived since, the whole list is still there before
\* 3600 seconds have passed since that EXPIRE and is gone, oldest entries
\* included, once they have.
C6_ListGoneAnHourAfterLastCompleteAppend ==
    \A l \in Labels :
        hist[l].complete =>
            /\ now >= hist[l].at + 3600 => events[l] = <<>>
            /\ now <  hist[l].at + 3600 => events[l] # <<>>

\* C6 witness: a list whose last append, made after the clock had advanced,
\* took effect completely has expired as a whole an hour later and no call
\* is in progress.
C6_Witness ==
    \E l \in Labels :
        /\ hist[l].complete
        /\ hist[l].at > 0
        /\ now >= hist[l].at + 3600
        /\ events[l] = <<>>
        /\ rec.pc = "idle"

\* C7: record_agent_event never aborts its caller: when serialization, the
\* append or the expiry call fails, the failure is caught inside, one
\* diagnostic is printed and control returns normally.
C7_RecorderFailureCaughtAndReported ==
    rec.pc = "done" =>
        /\ rec.exc = "none"
        /\ rec.fail # "none" => rec.diag = 1
        /\ rec.fail = "none" => rec.diag = 0

\* C7 witness: a call whose LPUSH was answered and whose EXPIRE met an
\* unreachable store has returned normally after one diagnostic.
C7_Witness ==
    /\ rec.pc = "done"
    /\ rec.fail = "expire"
    /\ rec.diag = 1
    /\ rec.exc = "none"
    /\ events[rec.label] # <<>>

(***************************************************************************)
(* Polling Presenter: cli.py, generate_agents_table (19-53) and main       *)
(* (56-148).  `pc` names the statement main is executing.  A line of       *)
(* output is modelled by a tag:                                            *)
(*   "diag"                     Error reading from Redis: ...              *)
(*   "banner"                   Real-time Agent Monitoring                 *)
(*   "table_begin","table_end"  first and last write of a printed table    *)
(*   "no_active", "hint"        No active agents found / Use --stale ...   *)
(*   "no_data"                  No agent data found in Redis               *)
(*   "stopped"                  Monitoring stopped                         *)
(*   "agent", "status", "tokens", "compliance", "last_update"              *)
(*                              the identity block of inspect              *)
(*   "hdr_logs", ...            the section header of a detail flag        *)
(*   "not_found"                Agent <label> not found                    *)
(***************************************************************************)
Flags     == {"logs", "tools", "tokens", "packages"}
FlagSets  == {{}, {"logs"}, {"tools", "tokens"}, Flags}
Refreshes == {DefaultRefresh, 0 - 1}     \* --refresh N, type=int

ArgSets ==
    {[IdleArgs EXCEPT !.command = "none"]}
    \cup {[IdleArgs EXCEPT !.command = "list", !.watch = w, !.stale = st, !.refresh = n] :
              w \in BOOLEAN, st \in BOOLEAN, n \in Refreshes}
    \cup {[IdleArgs EXCEPT !.command = "inspect", !.agent_label = l, !.flags = f] :
              l \in Labels \cup {NoLabel}, f \in FlagSets}

DiagLines(n) == IF n = 0 THEN <<>> ELSE <<"diag">>

\* A banding that counts a compliance of exactly 0.8 as severe.
ComplianceCell_Inclusive(c) ==
    [text |-> <<c \div 10, c % 10>>,
     flag |-> IF c <= SevereBelow THEN "red"
              ELSE IF c < WarningBelow THEN "yellow"
              ELSE "none"]

\* Lines 38-42: the text f"{x:.1%}" (percent and tenths of a percent) and the
\* markup put around it, [red], [yellow] or none.  `c` is x in thousandths.
ComplianceCell(c) ==
    [text |-> <<c \div 10, c % 10>>,
     flag |-> IF c < SevereBelow THEN "red"
              ELSE IF c < WarningBelow THEN "yellow"
              ELSE "none"]

\* The loop of generate_agents_table (27-51) reads agent.status,
\* agent.package_compliance, ... and calls agent.last_update.strftime: a raw
\* value has no such attributes and a number has no strftime.
\* of which two cells of a row are modelled, Agent and Package Compliance.
generate_agents_table(m) ==
    IF \E l \in DOMAIN m : m[l].cls = "raw" \/ m[l].lu.k = "num"
    THEN [exc |-> "AttributeError", rows |-> EmptyMap]
    ELSE [exc |-> "none",
          rows |-> [l \in DOMAIN m |->
                      [agent |-> m[l].label,
                       compliance |-> ComplianceCell(m[l].package_compliance)]]]

\* parser.parse_args() (line 81) and the dispatch of lines 83-91 and 123.
Parse ==
    /\ pc = "start" /\ exit = "running"
    /\ \E a \in ArgSets :
         /\ args' = a
         /\ IF a.command = "none"
            THEN pc' = "end" /\ out' = <<"help">> /\ exit' = "ok"
            ELSE /\ pc' = IF a.command = "inspect" THEN "inspect"
                          ELSE IF a.watch THEN "banner"
                          ELSE "list_fetch"
                 /\ UNCHANGED <<out, exit>>
    /\ UNCHANGED <<storeVars, eventVars, call, recVars, agents, info>>

\* Lines 107-109 and 114-116: the single-shot fetch, the full snapshot with
\* --stale.
ListFetch ==
    /\ pc = "list_fetch" /\ exit = "running"
    /\ LET r == IF args.stale
                THEN get_all_agents("package", up, agentsKey)
                ELSE get_active_agents(up, agentsKey, now, DefaultMaxAgeMinutes)
       IN  /\ out' = out \o DiagLines(r.diag)
           /\ IF r.exc # "none"
              THEN exit' = r.exc /\ pc' = "end" /\ UNCHANGED agents
              ELSE agents' = r.ret /\ pc' = "list_render" /\ UNCHANGED exit
    /\ UNCHANGED <<storeVars, eventVars, call, recVars, args, info>>

\* Lines 110-113 and 117-121: the table, or the notice of an empty result.
ListRender ==
    /\ pc = "list_render" /\ exit = "running"
    /\ pc' = "end"
    /\ IF agents # EmptyMap
       THEN LET t == generate_agents_table(agents)
            IN  IF t.exc # "none"
                THEN exit' = t.exc /\ UNCHANGED out
                ELSE exit' = "ok" /\ out' = out \o <<"table_begin", "table_end">>
       ELSE /\ exit' = "ok"
            /\ out' = out \o (IF args.stale THEN <<"no_data">>
                                            ELSE <<"no_active", "hint">>)
    /\ UNCHANGED <<storeVars, eventVars, call, recVars, args, agents, info>>

\* Line 92, before the try statement of line 94.
WatchBanner ==
    /\ pc = "banner" /\ exit = "running"
    /\ out' = out \o <<"banner">>
    /\ pc' = "fetch"
    /\ UNCHANGED <<storeVars, eventVars, call, recVars, args, agents, info, exit>>

\* A watch cycle that honours --stale as the single-shot listing does.
WatchFetch_HonoursStale ==
    /\ pc = "fetch" /\ exit = "running"
    /\ LET r == IF args.stale
                THEN get_all_agents("package", up, agentsKey)
                ELSE get_active_agents(up, agentsKey, now, DefaultMaxAgeMinutes)
       IN  /\ out' = DiagLines(r.diag)
           /\ IF r.exc # "none"
              THEN exit' = r.exc /\ pc' = "end" /\ UNCHANGED agents
              ELSE /\ agents' = r.ret
                   /\ pc' = IF r.ret # EmptyMap THEN "table" ELSE "notice"
                   /\ UNCHANGED exit
    /\ UNCHANGED <<storeVars, eventVars, call, recVars, args, info>>

\* Line 96-97: a cycle starts with the fetch of the active set.
WatchFetch ==
    /\ pc = "fetch" /\ exit = "running"
    /\ LET r == get_active_agents(up, agentsKey, now, DefaultMaxAgeMinutes)
       IN  /\ out' = DiagLines(r.diag)
           /\ IF r.exc # "none"
              THEN exit' = r.exc /\ pc' = "end" /\ UNCHANGED agents
              ELSE /\ agents' = r.ret
                   /\ pc' = IF r.ret # EmptyMap THEN "table" ELSE "notice"
                   /\ UNCHANGED exit
    /\ UNCHANGED <<storeVars, eventVars, call, recVars, args, info>>

\* Lines 98-99: the table is built and console.print starts writing it.
WatchTableBegin ==
    /\ pc = "table" /\ exit = "running"
    /\ LET t == generate_agents_table(agents)
       IN  IF t.exc # "none"
           THEN exit' = t.exc /\ pc' = "end" /\ UNCHANGED out
           ELSE out' = out \o <<"table_begin">> /\ pc' = "table_mid" /\ UNCHANGED exit
    /\ UNCHANGED <<storeVars, eventVars, call, recVars, args, agents, info>>

\* Line 99: console.print writes the rest of the table and returns.
WatchTableEnd ==
    /\ pc = "table_mid" /\ exit = "running"
    /\ out' = out \o <<"table_end">>
    /\ pc' = "sleep"
    /\ UNCHANGED <<storeVars, eventVars, call, recVars, args, agents, info, exit>>

\* Line 101.
WatchNotice ==
    /\ pc = "notice" /\ exit = "running"
    /\ out' = out \o <<"no_active">>
    /\ pc' = "hint"
    /\ UNCHANGED <<storeVars, eventVars, call, recVars, args, agents, info, exit>>

\* Line 102.
WatchHint ==
    /\ pc = "hint" /\ exit = "running"
    /\ out' = out \o <<"hint">>
    /\ pc' = "sleep"
    /\ UNCHANGED <<storeVars, eventVars, call, recVars, args, agents, info, exit>>

\* Line 103: time.sleep(args.refresh) raises ValueError for a negative
\* length; otherwise the loop goes round.
WatchSleep ==
    /\ pc = "sleep" /\ exit = "running"
    /\ IF args.refresh < 0
       THEN exit' = "ValueError" /\ pc' = "end"
       ELSE pc' = "fetch" /\ UNCHANGED exit
    /\ UNCHANGED <<storeVars, eventVars, call, recVars, args, agents, info, out>>

\* The statements inside the try of lines 94-103.
InTry == {"fetch", "table", "table_mid", "notice", "hint", "sleep"}

\* The operator presses Ctrl-C: KeyboardInterrupt is raised in the statement
\* being executed.  Inside the try it reaches the handler of line 104; at the
\* banner (line 92) and inside the handler itself (line 105) nothing catches
\* it.
Interrupt ==
    /\ exit = "running" /\ args.watch
    /\ pc \in InTry \cup {"banner", "stopped"}
    /\ IF pc \in InTry
       THEN pc' = "stopped" /\ UNCHANGED exit
       ELSE pc' = "end" /\ exit' = "KeyboardInterrupt"
    /\ UNCHANGED <<storeVars, eventVars, call, recVars, args, agents, info, out>>

\* Line 105, then main returns.
WatchStopped ==
    /\ pc = "stopped" /\ exit = "running"
    /\ out' = out \o <<"stopped">>
    /\ pc' = "end"
    /\ exit' = "ok"
    /\ UNCHANGED <<storeVars, eventVars, call, recVars, args, agents, info>>

\* Line 124.
InspectFetch ==
    /\ pc = "inspect" /\ exit = "running"
    /\ LET r == get_agent_info("package", up, agentsKey, args.agent_label)
       IN  /\ out' = out \o DiagLines(r.diag)
           /\ info' = r
           /\ IF r.exc # "none"
              THEN exit' = r.exc /\ pc' = "end"
              ELSE pc' = "inspect_print" /\ UNCHANGED exit
    /\ UNCHANGED <<storeVars, eventVars, call, recVars, args, agents>>

FlagLines(f) ==
    (IF "logs" \in f THEN <<"hdr_logs">> ELSE <<>>)
    \o (IF "tools" \in f THEN <<"hdr_tools">> ELSE <<>>)
    \o (IF "tokens" \in f THEN <<"hdr_tokens">> ELSE <<>>)
    \o (IF "packages" \in f THEN <<"hdr_packages">> ELSE <<>>)

\* Lines 125-148: `if agent_info:` is false for None and for a falsy raw
\* value; agent_info.label raises on a raw value, last_update.strftime on a
\* number.
InspectPrint ==
    /\ pc = "inspect_print" /\ exit = "running"
    /\ pc' = "end"
    /\ IF ~info.found \/ ~info.val.truthy
       THEN out' = out \o <<"not_found">> /\ exit' = "ok"
       ELSE IF info.val.cls = "raw"
       THEN UNCHANGED out /\ exit' = "AttributeError"
       ELSE IF info.val.lu.k = "num"
       THEN /\ out' = out \o <<"agent", "status", "tokens", "compliance">>
            /\ exit' = "AttributeError"
       ELSE /\ out' = out \o <<"agent", "status", "tokens", "compliance", "last_update">>
                          \o FlagLines(args.flags)
            /\ exit' = "ok"
    /\ UNCHANGED <<storeVars, eventVars, call, recVars, args, agents, info>>

CliNext ==
    \/ StoreDown
    \/ StoreUp
    \/ ProducerWrite
    \/ Tick
    \/ Parse
    \/ ListFetch
    \/ ListRender
    \/ WatchBanner
    \/ WatchFetch
    \/ WatchTableBegin
    \/ WatchTableEnd
    \/ WatchNotice
    \/ WatchHint
    \/ WatchSleep
    \/ Interrupt
    \/ WatchStopped
    \/ InspectFetch
    \/ InspectPrint

SpecCli == Init /\ [][CliNext]_vars

(***************************************************************************)
(* The table of generate_agents_table as a function of its argument: the   *)
(* mapping to render is drawn at the start, one record with every          *)
(* package_compliance from 0 to MaxPermille thousandths.                   *)
(***************************************************************************)
TableInputs ==
    {[l \in {"a"} |->
         AgentInfo([Named(JRec("exact", Lu("iso", 0)), l) EXCEPT !.package_compliance = c],
                   Lu("naive", 0))] : c \in 0..MaxPermille}

TableInit ==
    /\ up = TRUE
    /\ agentsKey = Blob("absent", EmptyMap)
    /\ now = 0
    /\ events = [l \in Labels |-> <<>>]
    /\ expireAt = [l \in Labels |-> NoExpiry]
    /\ call = IdleCall
    /\ rec = IdleRec
    /\ hist = [l \in Labels |-> [complete |-> FALSE, at |-> 0]]
    /\ pc = "start"
    /\ args = IdleArgs
    /\ agents \in TableInputs
    /\ info = NoInfo
    /\ out = <<>>
    /\ exit = "running"

\* table = generate_agents_table(agents), cli.py 98, 111 and 118.
CallTable ==
    /\ call.op = "idle"
    /\ LET t == generate_agents_table(agents)
       IN  call' = [IdleCall EXCEPT !.op = "generate_agents_table",
                                    !.ret = t.rows, !.exc = t.exc]
    /\ UNCHANGED <<storeVars, eventVars, recVars, cliVars>>

TableNext ==
    \/ CallTable
    \/ CallReturn

SpecTable == TableInit /\ [][TableNext]_vars

\* C17: in the row of every record the Package Compliance cell is flagged
\* severe ([red]) when package_compliance < 0.80, warning ([yellow]) when
\* 0.80 <= package_compliance < 0.95 and not at all otherwise; 0.5 is severe,
\* 0.9 warning, 0.99 neutral, exactly 0.80 warning and exactly 0.95 neutral.
\* (Compliance in thousandths.)
C17_ComplianceBands ==
    (call.op = "generate_agents_table" /\ call.exc = "none")
        => /\ DOMAIN call.ret = DOMAIN agents
           /\ \A l \in DOMAIN agents :
                LET c == agents[l].package_compliance
                    f == call.ret[l].compliance.flag
                IN  /\ f = "red" <=> c < 800
                    /\ f = "yellow" <=> (800 <= c /\ c < 950)
                    /\ f = "none" <=> c >= 950
                    /\ c = 500 => f = "red"
                    /\ c = 900 => f = "yellow"
                    /\ c = 990 => f = "none"
                    /\ c = 800 => f = "yellow"
                    /\ c = 950 => f = "none"

\* C17 witness: the table of a record with a compliance of exactly 0.80 has
\* been generated and its cell reads 80.0% flagged as a warning.
C17_Witness ==
    /\ call.op = "generate_agents_table" /\ call.exc = "none"
    /\ \E l \in DOMAIN agents :
         /\ agents[l].package_compliance = 800
         /\ call.ret[l].compliance = [text |-> <<80, 0>>, flag |-> "yellow"]

(***************************************************************************)
(* All operations of the core over one store: the read calls, the recorder *)
(* and the commands of the CLI, one client at a time, the CLI while no      *)
(* event list exists.  The clock stands still, so no key expires: whatever *)
(* changes in the store is the doing of a producer (subctl:agents) or of   *)
(* an operation of the core.                                               *)
(***************************************************************************)
NoClient == call.op = "idle" /\ rec.pc = "idle" /\ pc = "start"

\* The snapshots the producers of this model write: one of each kind the
\* fetch tells apart.
FrameBlobs ==
    {Blob("absent", EmptyMap), Blob("junk", EmptyMap),
     KeyedBlob([l \in {"a"} |-> JRec("exact", Lu("iso", 0))]),
     KeyedBlob([l \in {"a"} |-> JRaw(TRUE)]),
     KeyedBlob([l \in Labels |-> IF l = "a" THEN JRec("exact", Lu("iso", 0))
                                            ELSE JRec("exact", Lu("isotz", 0))]),
     KeyedBlob([l \in Labels |-> IF l = "a" THEN JRec("exact", Lu("iso", 0))
                                            ELSE JRec("missing", Lu("iso", 0))])}

FrameNext ==
    \/ StoreDown
    \/ StoreUp
    \/ (ProducerWrite /\ agentsKey' \in FrameBlobs)
    \/ (NoClient /\ CallGetAll)
    \/ (NoClient /\ CallGetActive)
    \/ (NoClient /\ CallGetInfo)
    \/ CallReturn
    \/ (NoClient /\ RecordPush)
    \/ RecordExpire
    \/ RecordReturn
    \/ (NoClient /\ events = [l \in Labels |-> <<>>] /\ Parse)
    \/ ListFetch
    \/ ListRender
    \/ WatchBanner
    \/ WatchFetch
    \/ WatchTableBegin
    \/ WatchTableEnd
    \/ WatchNotice
    \/ WatchHint
    \/ WatchSleep
    \/ Interrupt
    \/ WatchStopped
    \/ InspectFetch
    \/ InspectPrint

SpecFrame == Init /\ [][FrameNext]_vars

\* C14: a step of a read call or of a list/inspect command leaves
\* subctl:agents and every event list and expiry as they were; a step of
\* record_agent_event leaves subctl:agents and the other labels' keys as they
\* were, and changes its own label's key at most by putting one entry in
\* front of the entries already there and by setting the expiry to an hour
\* from now.
C14_OnlyAppendsToOwnEventList ==
    [][ /\ (call' # call \/ cliVars' # cliVars)
            => UNCHANGED <<agentsKey, events, expireAt>>
        /\ (rec' # rec)
            => LET own == IF rec.pc = "idle" THEN rec'.label ELSE rec.label
               IN  /\ agentsKey' = agentsKey
                   /\ \A l \in Labels \ {own} :
                        events'[l] = events[l] /\ expireAt'[l] = expireAt[l]
                   /\ \/ events'[own] = events[own]
                      \/ /\ Len(events'[own]) = Len(events[own]) + 1
                         /\ Tail(events'[own]) = events[own]
                   /\ expireAt'[own] \in {expireAt[own], now + EventTtlSeconds} ]_vars

\* C14 witness: a call of record_agent_event has put a second entry on its
\* label's list and set the expiry, while the store holds a snapshot with an
\* agent and a list of the other label.
C14_Witness ==
    /\ rec.pc = "done" /\ rec.fail = "none"
    /\ Len(events[rec.label]) = 2
    /\ events[rec.label][1] # events[rec.label][2]
    /\ expireAt[rec.label] = now + EventTtlSeconds
    /\ \E l \in Labels \ {rec.label} : events[l] # <<>>
    /\ agentsKey.k = "obj" /\ agentsKey.m # EmptyMap

(***************************************************************************)
(* Claims about the CLI (specification SpecCli).                           *)
(***************************************************************************)
Last(q) == q[Len(q)]

\* C4: whatever the store holds, whether or not it answers, and whatever
\* arguments the parser accepted, `agents list` (single-shot, --stale, every
\* cycle of --watch) and `agents inspect` end without an uncaught exception.
\* (An operator interrupt is C9's subject and is not counted here.)
C4_NoUncaughtException ==
    args.command \in {"list", "inspect"} => exit \in {"running", "ok", "KeyboardInterrupt"}

\* C8: in watch mode a cycle's render, once started, is complete when the
\* loop is left (for the handler of line 104, or for good): a started table
\* has been written to its end and the 'no active agents' notice has both
\* its lines.
C8_RenderCompleteAtExit ==
    (args.watch /\ pc \in {"stopped", "end"}) =>
        \A i \in 1..Len(out) :
            /\ out[i] = "table_begin" => (i < Len(out) /\ out[i + 1] = "table_end")
            /\ out[i] = "no_active" => (i < Len(out) /\ out[i + 1] = "hint")

\* C9: in watch mode an interrupt never leaves main as an uncaught
\* exception, and the run an interrupt ends has 'Monitoring stopped' as its
\* last output and returns normally.
C9_InterruptExitsCleanly ==
    args.watch =>
        /\ exit # "KeyboardInterrupt"
        /\ (exit = "ok" => Last(out) = "stopped")

\* C10: inspecting a label that the fetched snapshot does not hold (the store
\* being unreachable and the key being absent included) prints the 'not
\* found' line for the label, prints no identity block, raises nothing and
\* returns normally.
C10_AbsentLabelReportedNotFound ==
    (args.command = "inspect" /\ pc \in {"inspect_print", "end"} /\ ~info.found) =>
        /\ exit \in {"running", "ok"}
        /\ (pc = "end" => /\ exit = "ok"
                          /\ Last(out) = "not_found"
                          /\ \A i \in 1..Len(out) : out[i] \in {"diag", "not_found"})

\* C10 witness: an inspect run that met an unreachable store has printed the
\* diagnostic, then 'not found', and returned normally.
C10_Witness ==
    /\ args.command = "inspect" /\ pc = "end" /\ ~info.found
    /\ info.diag = 1
    /\ out = <<"diag", "not_found">>
    /\ exit = "ok"

\* The identity block of inspect, cli.py 126-130.
IdentityBlock == <<"agent", "status", "tokens", "compliance", "last_update">>

\* C11: inspect looks the label up in the full snapshot, not in the active
\* subset: when the fetched snapshot holds a value under the label, the
\* lookup returns that value, and for a record whose last_update is a
\* timestamp, however old, inspect prints the identity block and the
\* requested section headers instead of 'not found' and returns normally.
C11_InspectFindsStaleRecord ==
    [][ /\ (pc = "inspect" /\ pc' # "inspect" /\ args.agent_label \in DOMAIN Snapshot)
            => (info'.found /\ info'.val = Snapshot[args.agent_label])
        /\ (pc = "inspect_print" /\ pc' = "end" /\ info.found
               /\ info.val.cls = "AgentInfo" /\ info.val.lu.k \in {"naive", "aware"})
            => /\ out' = out \o IdentityBlock \o FlagLines(args.flags)
               /\ exit' = "ok" ]_vars

\* C11 witness: an inspect run has found a record last updated at least 15
\* minutes before, printed its identity block and returned normally.
C11_Witness ==
    /\ args.command = "inspect" /\ pc = "end" /\ exit = "ok"
    /\ info.found /\ info.val.cls = "AgentInfo" /\ info.val.lu.k = "naive"
    /\ now - info.val.lu.t >= 15 * 60
    /\ out = IdentityBlock \o FlagLines(args.flags)

\* C18: in watch mode the loop is left only through an interrupt, and a
\* cycle that has reached its sleep has made one fetch and then exactly one
\* render: the whole table, or (after a failed fetch too, behind its
\* diagnostic) the two lines of the 'no active agents' notice.
C18_WatchLoopRunsOn ==
    args.watch =>
        /\ exit \in {"running", "ok", "KeyboardInterrupt"}
        /\ exit = "ok" => Last(out) = "stopped"
        /\ pc = "sleep" => out \in {<<"table_begin", "table_end">>,
                                    <<"no_active", "hint">>,
                                    <<"diag", "no_active", "hint">>}

\* The records of a mapping that are at most the default 10 minutes old.
RecentOf(m) ==
    LET keep == {l \in DOMAIN m : m[l].cls = "AgentInfo"
                                    /\ now - m[l].lu.t <= 60 * DefaultMaxAgeMinutes}
    IN  [l \in keep |-> m[l]]

\* C12: the mapping that `agents list` goes on to render is the full snapshot
\* when --stale is given without --watch, and in every other flag
\* combination the active subset of the snapshot: --stale changes nothing in
\* any cycle of watch mode.
C12_StaleOnlyInSingleShot ==
    [][ (pc \in {"list_fetch", "fetch"} /\ pc' \in {"list_render", "table", "notice"})
            => IF args.stale /\ ~args.watch
               THEN agents' = Snapshot
               ELSE agents' = RecentOf(Snapshot) ]_vars

\* C12 witness: a watch cycle started with --stale has fetched nothing to
\* render and goes on to the 'no active agents' notice, while the store
\* answers and the snapshot holds a record, too old to be active.
C12_Witness ==
    /\ args.command = "list" /\ args.watch /\ args.stale
    /\ pc = "notice" /\ exit = "running"
    /\ agents = EmptyMap /\ out = <<>>
    /\ \E l \in DOMAIN Snapshot :
         Snapshot[l].cls = "AgentInfo" /\ now - Snapshot[l].lu.t > 60 * DefaultMaxAgeMinutes

\* C19, about the fetch model (specification Spec): in every mapping that
\* get_all_agents returns, each key equals the label field of the record
\* stored under it, so the name the Agent column shows for a record is the
\* name under which inspect finds it.
C19_KeyIsLabel ==
    call.op = "get_all_agents"
        => \A l \in DOMAIN call.ret :
               call.ret[l].cls = "AgentInfo"
                   => /\ call.ret[l].label = l
                      /\ generate_agents_table(call.ret).exc = "none"
                            => generate_agents_table(call.ret).rows[l].agent = l

(***************************************************************************)
(* Watch mode over a snapshot that no producer rewrites once the command   *)
(* has started: the store may go away and come back and the clock runs.    *)
(***************************************************************************)
WatchNext ==
    \/ StoreDown
    \/ StoreUp
    \/ (pc = "start" /\ ProducerWrite)
    \/ Tick
    \/ (Parse /\ args'.watch)
    \/ WatchBanner
    \/ WatchFetch
    \/ WatchTableBegin
    \/ WatchTableEnd
    \/ WatchNotice
    \/ WatchHint
    \/ WatchSleep
    \/ Interrupt
    \/ WatchStopped

SpecWatch == Init /\ [][WatchNext]_vars

\* A fetch step of a cycle that is not the first: what the previous cycle
\* printed has taken the banner's place in `out`.
LaterFetch == pc = "fetch" /\ pc' \in {"table", "notice"} /\ out # <<"banner">>

\* C20 as stated: while subctl:agents stays as it is and the clock only
\* advances, the active set a watch cycle sees holds no agent that the
\* cycle before did not see.
C20_ActiveSetNeverGrows ==
    [][ LaterFetch => DOMAIN agents' \subseteq DOMAIN agents ]_vars

\* C20 amended: the same, from a cycle whose fetch the store answered (it
\* printed no diagnostic) to the cycle after it; the records seen again are
\* the same records.
C20_ActiveSetShrinksWhileStoreAnswers ==
    [][ (LaterFetch /\ (out = <<>> \/ Head(out) # "diag"))
            => /\ DOMAIN agents' \subseteq DOMAIN agents
               /\ \A l \in DOMAIN agents' : agents'[l] = agents[l] ]_vars

\* C20 witness: the cycle before rendered a table of the agents it saw, the
\* store answers and holds the snapshot, and by now every record of it is
\* older than 10 minutes: the fetch about to run drops them all.
C20_Witness ==
    /\ args.watch /\ pc = "fetch" /\ exit = "running"
    /\ out = <<"table_begin", "table_end">>
    /\ agents # EmptyMap
    /\ up /\ DOMAIN Snapshot = DOMAIN agents
    /\ RecentOf(Snapshot) = EmptyMap

====
